---- MODULE Spec2Model ----
(***************************************************************************)
(* The beverage inventory and sales database of src/task_2.py              *)
(* (class DrinkDatabase): the ingredients, cocktails, recipes and sales    *)
(* tables and the operations on them.                                      *)
(*                                                                         *)
(* Spec      one caller: every operation of DrinkDatabase runs from its    *)
(*           first statement to its return before the next one starts      *)
(*           (the tkinter application is single-threaded).                 *)
(* SpecConc  two connections to the same database file (two running        *)
(*           instances of the application): the sale operations advance    *)
(*           one SQL statement (with its commit) at a time, interleaved.   *)
(*                                                                         *)
(* Volumes are REAL columns.  They are held here as integers counting      *)
(* 1/VolScale millilitres, so 50 ml is 100 and 0.5 ml is 1; halves are     *)
(* exact in binary floating point, so the arithmetic below is the          *)
(* arithmetic the program performs.  Inputs stay in the documented domain  *)
(* (positive unit volumes, positive required volumes).                     *)
(***************************************************************************)
EXTENDS Integers, Sequences, FiniteSets, TLC

VARIABLES ingredients, cocktails, recipes, sales, last_call, pc, frame

vars == <<ingredients, cocktails, recipes, sales, last_call, pc, frame>>

(***************************************************************************)
(* Bounds of the model.                                                    *)
(***************************************************************************)
MaxIngredients == 2
MaxCocktails == 1
MaxSales == 2
MaxClock == 0
MaxInitQty == 3
QtyCap == 3
NegCap == 1
MaxArg == 2
MaxCalls == 1
MaxViewVol == 10

\* volume_ml REAL: one millilitre is VolScale model units
VolScale == 2

\* LIMIT 100 of get_sales_report
ReportLimit == 100

(***************************************************************************)
(* Inputs.                                                                 *)
(***************************************************************************)
\* Ingredient(None, name, alcohol, volume, quantity, price) without quantity
IngredientInputs ==
    { [name |-> "gin",   alcohol_percent |-> 40, volume_ml |-> 50 * VolScale, price_per_unit |-> 20],
      [name |-> "syrup", alcohol_percent |-> 0,  volume_ml |-> 1,             price_per_unit |-> 3] }

\* add_cocktail(name, price, recipe): recipe is a dict, here its items in
\* insertion order.  120 ml, 100.5 ml and 1 ml are the volumes used.
CocktailInputs ==
    { [name |-> "mix",   price |-> 10, recipe |-> << <<2, 1 * VolScale>>, <<1, 120 * VolScale>> >>],
      [name |-> "half",  price |-> 7,  recipe |-> << <<1, 100 * VolScale + 1>> >>],
      [name |-> "empty", price |-> 4,  recipe |-> << >>] }

IngIds == 1 .. (MaxIngredients + 1)
CocktailIds == 1 .. (MaxCocktails + 1)
\* call arguments: a negative amount and the positive ones
Args == {-1} \cup (1 .. MaxArg)
Procs == {1, 2}

(***************************************************************************)
(* Tables.  Every table has an AUTOINCREMENT key and no DELETE exists, so  *)
(* a table is the sequence of its rows and a row's id is its index.        *)
(***************************************************************************)
\* datetime.now(): the clock does not run backwards
LastDate == IF sales = << >> THEN 0 ELSE sales[Len(sales)].date

\* SELECT * FROM ingredients WHERE id=?  (Optional: << >> is None)
get_ingredient_by_id(ing_id) ==
    IF ing_id \in DOMAIN ingredients THEN << ingredients[ing_id] >> ELSE << >>

\* the UPDATE without its WHERE clause: every row gets the delta
update_ingredient_quantity_every_row(ings, ing_id, delta) ==
    IF ing_id \in DOMAIN ings
    THEN [ingredients |-> [i \in DOMAIN ings |-> [ings[i] EXCEPT !.quantity = @ + delta]],
          ret |-> TRUE]
    ELSE [ingredients |-> ings, ret |-> FALSE]

\* UPDATE ingredients SET quantity = quantity + ? WHERE id=? ; commit
update_ingredient_quantity(ings, ing_id, delta) ==
    IF ing_id \in DOMAIN ings
    THEN [ingredients |-> [ings EXCEPT ![ing_id].quantity = @ + delta], ret |-> TRUE]
    ELSE [ingredients |-> ings, ret |-> FALSE]

\* a sales table that keeps the newest sale only (the INSERT replacing the
\* rows stored before it)
InsertSale_replacing(sls, item_type, item_id, quantity, total_price, date) ==
    << [id |-> Len(sls) + 1, item_type |-> item_type, item_id |-> item_id,
        quantity |-> quantity, total_price |-> total_price, date |-> date] >>

\* INSERT INTO sales (item_type, item_id, quantity, total_price, date)
InsertSale(sls, item_type, item_id, quantity, total_price, date) ==
    Append(sls, [id |-> Len(sls) + 1, item_type |-> item_type, item_id |-> item_id,
                 quantity |-> quantity, total_price |-> total_price, date |-> date])

\* SELECT * FROM sales ORDER BY date DESC LIMIT 100.  The sort is on date
\* alone; rows of equal date leave SQLite's sorter in the order the table
\* scan met them, ascending id.  A row's place is the number of rows before it.
get_sales_report ==
    LET before(r) == {x \in DOMAIN sales :
                        \/ sales[x].date > sales[r].date
                        \/ (sales[x].date = sales[r].date /\ x < r)}
        sorted == [n \in 1 .. Len(sales) |->
                     sales[CHOOSE r \in DOMAIN sales : Cardinality(before(r)) = n - 1]]
    IN  IF Len(sorted) <= ReportLimit THEN sorted ELSE SubSeq(sorted, 1, ReportLimit)

\* The rows of recipes JOIN ingredients for one cocktail, in the order SQLite
\* returns them (the primary-key index: ascending ingredient id); a row whose
\* ingredient does not exist is not in the join.
RecipeRows(cocktail_id) ==
    LET has(i) == \E k \in DOMAIN recipes :
                     recipes[k].cocktail_id = cocktail_id /\ recipes[k].ingredient_id = i
        vol(i) == recipes[CHOOSE k \in DOMAIN recipes :
                     recipes[k].cocktail_id = cocktail_id /\ recipes[k].ingredient_id = i].volume_ml
        ids == SelectSeq([i \in 1 .. Len(ingredients) |-> i], has)
    IN  [j \in 1 .. Len(ids) |-> [id |-> ids[j], volume_ml |-> vol(ids[j])]]

RECURSIVE SumVolume(_, _)
SumVolume(rows, k) ==
    IF k > Len(rows) THEN 0 ELSE rows[k].volume_ml + SumVolume(rows, k + 1)

\* total_alcohol, times 100: the sum of volume_ml * alcohol_percent of the
\* joined rows (alcohol_percent is the column of the joined ingredient)
RECURSIVE SumAlcohol(_, _)
SumAlcohol(rows, k) ==
    IF k > Len(rows) THEN 0
    ELSE rows[k].volume_ml * ingredients[rows[k].id].alcohol_percent + SumAlcohol(rows, k + 1)

\* round(num / den, 1) with the fraction truncated to one decimal
round1_truncating(num, den) == (10 * num) \div den

\* round(num / den, 1), counted in tenths: the nearest tenth, a half going to
\* the even tenth
round1(num, den) ==
    LET q == (10 * num) \div den
        r == (10 * num) % den
    IN  IF 2 * r < den THEN q
        ELSE IF 2 * r > den THEN q + 1
        ELSE IF q % 2 = 0 THEN q ELSE q + 1

\* round((total_alcohol / total_volume * 100) if total_volume > 0 else 0, 1),
\* in tenths of a percent
alcohol_percent(rows) ==
    IF SumVolume(rows, 1) > 0 THEN round1(SumAlcohol(rows, 1), SumVolume(rows, 1)) ELSE 0

\* get_cocktail_by_id: the cocktail row, its recipe dict, strength and total
\* volume
get_cocktail_by_id(cocktail_id) ==
    IF cocktail_id \notin DOMAIN cocktails THEN << >>
    ELSE LET rows == RecipeRows(cocktail_id)
         IN  << [id |-> cocktail_id, name |-> cocktails[cocktail_id].name,
                 price |-> cocktails[cocktail_id].price,
                 recipe |-> rows, alcohol_percent |-> alcohol_percent(rows),
                 volume |-> SumVolume(rows, 1)] >>

\* ORDER BY name: the place of a name among the names in use
NameOrder == << "empty", "half", "mix", "view" >>

NameRank(name) == CHOOSE n \in DOMAIN NameOrder : NameOrder[n] = name

\* get_all_cocktails: SELECT * FROM cocktails ORDER BY name, and for each row
\* the same join, sums and rounding as get_cocktail_by_id
get_all_cocktails ==
    LET before(c) == {x \in DOMAIN cocktails :
                        NameRank(cocktails[x].name) < NameRank(cocktails[c].name)}
    IN  [n \in 1 .. Len(cocktails) |->
            get_cocktail_by_id(CHOOSE c \in DOMAIN cocktails : Cardinality(before(c)) = n - 1)[1]]

\* One pass of the loop of check_cocktail_availability: "" when the line passes
CheckLine(line) ==
    LET ing == get_ingredient_by_id(line.id)
    IN  IF ing = << >> THEN "ingredient_not_found"
        ELSE IF ing[1].quantity <= 0 THEN "out_of_stock"
        ELSE IF ing[1].quantity * ing[1].volume_ml < line.volume_ml THEN "insufficient"
        ELSE ""

check_cocktail_availability(cocktail_id) ==
    LET cocktail == get_cocktail_by_id(cocktail_id)
    IN  IF cocktail = << >> THEN [ok |-> FALSE, msg |-> "cocktail_not_found", ing_id |-> 0]
        ELSE LET recipe == cocktail[1].recipe
                 failing == {k \in DOMAIN recipe : CheckLine(recipe[k]) # ""}
             IN  IF failing = {} THEN [ok |-> TRUE, msg |-> "available", ing_id |-> 0]
                 ELSE LET k == CHOOSE x \in failing : \A y \in failing : x <= y
                      IN  [ok |-> FALSE, msg |-> CheckLine(recipe[k]), ing_id |-> recipe[k].id]

\* units_needed = (need_vol + ing.volume_ml - 1) // ing.volume_ml, on floats:
\* the 1 is one millilitre and // is the floor of the quotient
units_needed(need_vol, volume_ml) ==
    (need_vol + volume_ml - VolScale) \div volume_ml

\* One pass of the depletion loop of sell_cocktail
DepleteLine(ings, line) ==
    update_ingredient_quantity(ings, line.id,
        0 - units_needed(line.volume_ml, ings[line.id].volume_ml)).ingredients

RECURSIVE DepleteLines(_, _, _)
DepleteLines(ings, recipe, k) ==
    IF k > Len(recipe) THEN ings
    ELSE DepleteLines(DepleteLine(ings, recipe[k]), recipe, k + 1)

(***************************************************************************)
(* The operations, each from its first statement to its return: the value  *)
(* returned (ret), the message shown (msg) and the tables it leaves.       *)
(***************************************************************************)
Outcome(ret, msg, ings, sls) ==
    [ret |-> ret, msg |-> msg, ingredients |-> ings, sales |-> sls]

\* sell_cocktail with the availability test made inside the depletion loop:
\* the lines before the failing one are depleted before the call gives up
sell_cocktail_check_in_loop(cocktail_id, date) ==
    LET cocktail == get_cocktail_by_id(cocktail_id)
    IN  IF cocktail = << >> THEN Outcome(FALSE, "cocktail_not_found", ingredients, sales)
        ELSE LET available == check_cocktail_availability(cocktail_id)
                 recipe == cocktail[1].recipe
             IN  IF ~available.ok
                 THEN LET k == CHOOSE x \in DOMAIN recipe : recipe[x].id = available.ing_id
                      IN  Outcome(FALSE, available.msg,
                                  DepleteLines(ingredients, SubSeq(recipe, 1, k - 1), 1), sales)
                 ELSE Outcome(TRUE, "",
                              DepleteLines(ingredients, recipe, 1),
                              InsertSale(sales, "cocktail", cocktail_id, 1, cocktail[1].price, date))

RECURSIVE SalePerLine(_, _, _, _, _)
SalePerLine(sls, cocktail_id, price, date, n) ==
    IF n = 0 THEN sls
    ELSE SalePerLine(InsertSale(sls, "cocktail", cocktail_id, 1, price, date), cocktail_id, price, date, n - 1)

\* sell_cocktail with the INSERT indented into the depletion loop: one sale
\* record for every line of the recipe
sell_cocktail_insert_in_loop(cocktail_id, date) ==
    LET cocktail == get_cocktail_by_id(cocktail_id)
    IN  IF cocktail = << >> THEN Outcome(FALSE, "cocktail_not_found", ingredients, sales)
        ELSE LET available == check_cocktail_availability(cocktail_id)
             IN  IF ~available.ok THEN Outcome(FALSE, available.msg, ingredients, sales)
                 ELSE Outcome(TRUE, "",
                              DepleteLines(ingredients, cocktail[1].recipe, 1),
                              SalePerLine(sales, cocktail_id, cocktail[1].price, date,
                                          Len(cocktail[1].recipe)))

\* sell_cocktail without its call of check_cocktail_availability
sell_cocktail_unchecked(cocktail_id, date) ==
    LET cocktail == get_cocktail_by_id(cocktail_id)
    IN  IF cocktail = << >> THEN Outcome(FALSE, "cocktail_not_found", ingredients, sales)
        ELSE Outcome(TRUE, "",
                     DepleteLines(ingredients, cocktail[1].recipe, 1),
                     InsertSale(sales, "cocktail", cocktail_id, 1, cocktail[1].price, date))

sell_cocktail(cocktail_id, date) ==
    LET cocktail == get_cocktail_by_id(cocktail_id)
    IN  IF cocktail = << >> THEN Outcome(FALSE, "cocktail_not_found", ingredients, sales)
        ELSE LET available == check_cocktail_availability(cocktail_id)
             IN  IF ~available.ok THEN Outcome(FALSE, available.msg, ingredients, sales)
                 ELSE Outcome(TRUE, "",
                              DepleteLines(ingredients, cocktail[1].recipe, 1),
                              InsertSale(sales, "cocktail", cocktail_id, 1, cocktail[1].price, date))

\* sell_ingredient refusing a request for all of the stock on hand (the test
\* ing.quantity <= quantity in place of ing.quantity < quantity)
sell_ingredient_stock_le(ing_id, quantity, date) ==
    LET ing == get_ingredient_by_id(ing_id)
    IN  IF ing = << >> THEN Outcome(FALSE, "ingredient_not_found", ingredients, sales)
        ELSE IF ing[1].quantity <= quantity THEN Outcome(FALSE, "insufficient", ingredients, sales)
        ELSE Outcome(TRUE, "",
                     update_ingredient_quantity(ingredients, ing_id, 0 - quantity).ingredients,
                     InsertSale(sales, "ingredient", ing_id, quantity,
                                quantity * ing[1].price_per_unit, date))

\* sell_ingredient charging the unit price whatever the quantity
sell_ingredient_unit_price(ing_id, quantity, date) ==
    LET ing == get_ingredient_by_id(ing_id)
    IN  IF ing = << >> THEN Outcome(FALSE, "ingredient_not_found", ingredients, sales)
        ELSE IF ing[1].quantity < quantity THEN Outcome(FALSE, "insufficient", ingredients, sales)
        ELSE Outcome(TRUE, "",
                     update_ingredient_quantity(ingredients, ing_id, 0 - quantity).ingredients,
                     InsertSale(sales, "ingredient", ing_id, quantity, ing[1].price_per_unit, date))

sell_ingredient(ing_id, quantity, date) ==
    LET ing == get_ingredient_by_id(ing_id)
    IN  IF ing = << >> THEN Outcome(FALSE, "ingredient_not_found", ingredients, sales)
        ELSE IF ing[1].quantity < quantity THEN Outcome(FALSE, "insufficient", ingredients, sales)
        ELSE LET total_price == quantity * ing[1].price_per_unit
             IN  Outcome(TRUE, "",
                         update_ingredient_quantity(ingredients, ing_id, 0 - quantity).ingredients,
                         InsertSale(sales, "ingredient", ing_id, quantity, total_price, date))

\* restock_ingredient storing the amount as the new quantity (quantity = ?
\* in place of quantity = quantity + ?)
restock_ingredient_assign(ing_id, quantity) ==
    LET ing == get_ingredient_by_id(ing_id)
    IN  IF ing = << >> THEN Outcome(FALSE, "ingredient_not_found", ingredients, sales)
        ELSE Outcome(TRUE, "restocked",
                     [ingredients EXCEPT ![ing_id].quantity = quantity], sales)

restock_ingredient(ing_id, quantity) ==
    LET ing == get_ingredient_by_id(ing_id)
    IN  IF ing = << >> THEN Outcome(FALSE, "ingredient_not_found", ingredients, sales)
        ELSE Outcome(TRUE, "restocked",
                     update_ingredient_quantity(ingredients, ing_id, quantity).ingredients, sales)

\* INSERT INTO ingredients (name, alcohol_percent, volume_ml, quantity, price_per_unit)
IngredientRow(id, inp, quantity) ==
    [id |-> id, name |-> inp.name, alcohol_percent |-> inp.alcohol_percent,
     volume_ml |-> inp.volume_ml, quantity |-> quantity, price_per_unit |-> inp.price_per_unit]

\* add_ingredient on a table whose name column is not UNIQUE
add_ingredient_name_not_unique(inp, quantity) ==
    [ret |-> Len(ingredients) + 1, msg |-> "",
     ingredients |-> Append(ingredients, IngredientRow(Len(ingredients) + 1, inp, quantity))]

\* name TEXT UNIQUE NOT NULL: the INSERT raises IntegrityError on a name in use
add_ingredient(inp, quantity) ==
    IF \E i \in DOMAIN ingredients : ingredients[i].name = inp.name
    THEN [ret |-> 0, msg |-> "ValueError", ingredients |-> ingredients]
    ELSE [ret |-> Len(ingredients) + 1, msg |-> "",
          ingredients |-> Append(ingredients, IngredientRow(Len(ingredients) + 1, inp, quantity))]

\* INSERT INTO cocktails (name, price)
CocktailRow(cocktail_id, inp) ==
    [id |-> cocktail_id, name |-> inp.name, price |-> inp.price]

\* INSERT INTO recipes (cocktail_id, ingredient_id, volume_ml), for every item
RecipeLines(cocktail_id, inp) ==
    [k \in DOMAIN inp.recipe |->
        [cocktail_id |-> cocktail_id, ingredient_id |-> inp.recipe[k][1],
         volume_ml |-> inp.recipe[k][2]]]

\* The recipe rows are inserted as given: foreign keys are not enforced
\* (no PRAGMA foreign_keys), so an ingredient id need not exist.
add_cocktail(inp) ==
    IF \E c \in DOMAIN cocktails : cocktails[c].name = inp.name
    THEN [ret |-> 0, msg |-> "ValueError", cocktails |-> cocktails, recipes |-> recipes]
    ELSE LET cocktail_id == Len(cocktails) + 1
         IN  [ret |-> cocktail_id, msg |-> "",
              cocktails |-> Append(cocktails, CocktailRow(cocktail_id, inp)),
              recipes |-> recipes \o RecipeLines(cocktail_id, inp)]

(***************************************************************************)
(* State.  last_call is the last call made and what it returned; pc and    *)
(* frame are the position and the locals of each connection's call in      *)
(* SpecConc (idle throughout Spec).                                        *)
(***************************************************************************)
Call(op, id, arg, ret, msg) ==
    [op |-> op, id |-> id, arg |-> arg, ret |-> ret, msg |-> msg]

NoFrame ==
    [op |-> "", id |-> 0, quantity |-> 0, total_price |-> 0, recipe |-> << >>,
     price |-> 0, checked |-> << >>, k |-> 0, ret |-> FALSE, msg |-> "", ncalls |-> 0,
     applied |-> [i \in IngIds |-> 0]]

QuantitiesInRange(ings) ==
    \A i \in DOMAIN ings : ings[i].quantity \in (0 - NegCap) .. QtyCap

Init ==
    /\ ingredients = << >>
    /\ cocktails = << >>
    /\ recipes = << >>
    /\ sales = << >>
    /\ last_call = Call("", 0, 0, FALSE, "")
    /\ pc = [p \in Procs |-> "idle"]
    /\ frame = [p \in Procs |-> NoFrame]

AddIngredient(inp, quantity) ==
    LET r == add_ingredient(inp, quantity)
    IN  /\ Len(r.ingredients) <= MaxIngredients
        /\ ingredients' = r.ingredients
        /\ last_call' = Call("add_ingredient", r.ret, 0, r.ret # 0, r.msg)
        /\ UNCHANGED <<cocktails, recipes, sales, pc, frame>>

AddCocktail(inp) ==
    LET r == add_cocktail(inp)
    IN  /\ Len(r.cocktails) <= MaxCocktails
        /\ cocktails' = r.cocktails
        /\ recipes' = r.recipes
        /\ last_call' = Call("add_cocktail", r.ret, 0, r.ret # 0, r.msg)
        /\ UNCHANGED <<ingredients, sales, pc, frame>>

UpdateIngredientQuantity(ing_id, delta) ==
    LET r == update_ingredient_quantity(ingredients, ing_id, delta)
    IN  /\ QuantitiesInRange(r.ingredients)
        /\ ingredients' = r.ingredients
        /\ last_call' = Call("update_ingredient_quantity", ing_id, delta, r.ret, "")
        /\ UNCHANGED <<cocktails, recipes, sales, pc, frame>>

\* check_cocktail_availability setting aside the stock of a recipe it finds
\* available
CheckCocktailAvailability_reserving(cocktail_id) ==
    LET r == check_cocktail_availability(cocktail_id)
    IN  /\ last_call' = Call("check_cocktail_availability", cocktail_id, r.ing_id, r.ok, r.msg)
        /\ ingredients' = IF r.ok
                          THEN DepleteLines(ingredients, get_cocktail_by_id(cocktail_id)[1].recipe, 1)
                          ELSE ingredients
        /\ UNCHANGED <<cocktails, recipes, sales, pc, frame>>

CheckCocktailAvailability(cocktail_id) ==
    LET r == check_cocktail_availability(cocktail_id)
    IN  /\ last_call' = Call("check_cocktail_availability", cocktail_id, r.ing_id, r.ok, r.msg)
        /\ UNCHANGED <<ingredients, cocktails, recipes, sales, pc, frame>>

SellCocktail(cocktail_id, date) ==
    LET r == sell_cocktail(cocktail_id, date)
    IN  /\ QuantitiesInRange(r.ingredients)
        /\ Len(r.sales) <= MaxSales
        /\ ingredients' = r.ingredients
        /\ sales' = r.sales
        /\ last_call' = Call("sell_cocktail", cocktail_id, 0, r.ret, r.msg)
        /\ UNCHANGED <<cocktails, recipes, pc, frame>>

SellIngredient(ing_id, quantity, date) ==
    LET r == sell_ingredient(ing_id, quantity, date)
    IN  /\ QuantitiesInRange(r.ingredients)
        /\ Len(r.sales) <= MaxSales
        /\ ingredients' = r.ingredients
        /\ sales' = r.sales
        /\ last_call' = Call("sell_ingredient", ing_id, quantity, r.ret, r.msg)
        /\ UNCHANGED <<cocktails, recipes, pc, frame>>

RestockIngredient(ing_id, quantity) ==
    LET r == restock_ingredient(ing_id, quantity)
    IN  /\ QuantitiesInRange(r.ingredients)
        /\ ingredients' = r.ingredients
        /\ last_call' = Call("restock_ingredient", ing_id, quantity, r.ret, r.msg)
        /\ UNCHANGED <<cocktails, recipes, sales, pc, frame>>

\* get_sales_report reads the sales table; arg is the number of rows returned
GetSalesReport ==
    /\ last_call' = Call("get_sales_report", 0, Len(get_sales_report), TRUE, "")
    /\ UNCHANGED <<ingredients, cocktails, recipes, sales, pc, frame>>

\* The (ing_id, amount) pairs a call is made with: every amount on every
\* stored ingredient, and one call on an id that is not stored (the amount is
\* not read when the row is missing).
IngCalls ==
    ((DOMAIN ingredients) \X Args) \cup {<<Len(ingredients) + 1, 1>>}

Next ==
    \/ \E inp \in IngredientInputs, q \in {0, MaxInitQty} : AddIngredient(inp, q)
    \/ \E inp \in CocktailInputs : AddCocktail(inp)
    \/ \E c \in IngCalls : UpdateIngredientQuantity(c[1], c[2])
    \/ \E c \in CocktailIds : CheckCocktailAvailability(c)
    \/ \E c \in CocktailIds, t \in LastDate .. MaxClock : SellCocktail(c, t)
    \/ \E c \in IngCalls, t \in LastDate .. MaxClock : SellIngredient(c[1], c[2], t)
    \/ \E c \in IngCalls : RestockIngredient(c[1], c[2])
    \/ GetSalesReport

Spec == Init /\ [][Next]_vars

(***************************************************************************)
(* SpecConc: two connections on one database file.  A call advances one    *)
(* statement at a time: a SELECT reads the committed tables, an UPDATE or  *)
(* INSERT runs with the commit that follows it (SQLite serialises          *)
(* writers), and what a call has read it keeps in its frame.  The          *)
(* database holds gin, syrup and the cocktail "mix"; amounts sold are      *)
(* positive, as the dialogs pass them.                                     *)
(***************************************************************************)
Gin == CHOOSE inp \in IngredientInputs : inp.name = "gin"
Syrup == CHOOSE inp \in IngredientInputs : inp.name = "syrup"
Mix == CHOOSE inp \in CocktailInputs : inp.name = "mix"

ConcIngredients == << IngredientRow(1, Gin, MaxInitQty), IngredientRow(2, Syrup, MaxInitQty - 1) >>

ConcInit ==
    /\ ingredients = ConcIngredients
    /\ cocktails = << CocktailRow(1, Mix) >>
    /\ recipes = RecipeLines(1, Mix)
    /\ sales = << >>
    /\ last_call = Call("", 0, 0, FALSE, "")
    /\ pc = [p \in Procs |-> "idle"]
    /\ frame = [p \in Procs |-> NoFrame]

Goto(p, label, f) ==
    /\ pc' = [pc EXCEPT ![p] = label]
    /\ frame' = [frame EXCEPT ![p] = f]

Return(p, ret, msg) ==
    Goto(p, "done", [frame[p] EXCEPT !.ret = ret, !.msg = msg])

CanCall(p) ==
    /\ pc[p] \in {"idle", "done"}
    /\ frame[p].ncalls < MaxCalls

\* sell_ingredient(ing_id, quantity) is entered
CallSellIngredient(p, ing_id, quantity) ==
    /\ CanCall(p)
    /\ Goto(p, "si_read", [NoFrame EXCEPT !.op = "sell_ingredient", !.id = ing_id,
                                          !.quantity = quantity, !.ncalls = frame[p].ncalls + 1])
    /\ UNCHANGED <<ingredients, cocktails, recipes, sales, last_call>>

\* ing = get_ingredient_by_id(ing_id), the two checks, total_price
SiRead(p) ==
    /\ pc[p] = "si_read"
    /\ LET ing == get_ingredient_by_id(frame[p].id)
       IN  IF ing = << >> THEN Return(p, FALSE, "ingredient_not_found")
           ELSE IF ing[1].quantity < frame[p].quantity THEN Return(p, FALSE, "insufficient")
           ELSE Goto(p, "si_update",
                     [frame[p] EXCEPT !.total_price = frame[p].quantity * ing[1].price_per_unit])
    /\ UNCHANGED <<ingredients, cocktails, recipes, sales, last_call>>

\* update_ingredient_quantity(ing_id, -quantity)
SiUpdate(p) ==
    /\ pc[p] = "si_update"
    /\ ingredients' = update_ingredient_quantity(ingredients, frame[p].id, 0 - frame[p].quantity).ingredients
    /\ Goto(p, "si_insert", frame[p])
    /\ UNCHANGED <<cocktails, recipes, sales, last_call>>

\* INSERT INTO sales ... ; commit ; return True
SiInsert(p, date) ==
    /\ pc[p] = "si_insert"
    /\ sales' = InsertSale(sales, "ingredient", frame[p].id, frame[p].quantity, frame[p].total_price, date)
    /\ Return(p, TRUE, "")
    /\ UNCHANGED <<ingredients, cocktails, recipes, last_call>>

\* sell_cocktail(cocktail_id) is entered
CallSellCocktail(p, cocktail_id) ==
    /\ CanCall(p)
    /\ Goto(p, "sc_get", [NoFrame EXCEPT !.op = "sell_cocktail", !.id = cocktail_id,
                                         !.ncalls = frame[p].ncalls + 1])
    /\ UNCHANGED <<ingredients, cocktails, recipes, sales, last_call>>

\* cocktail = get_cocktail_by_id(cocktail_id)
ScGet(p) ==
    /\ pc[p] = "sc_get"
    /\ LET cocktail == get_cocktail_by_id(frame[p].id)
       IN  IF cocktail = << >> THEN Return(p, FALSE, "cocktail_not_found")
           ELSE Goto(p, "sc_check_get",
                     [frame[p] EXCEPT !.recipe = cocktail[1].recipe, !.price = cocktail[1].price])
    /\ UNCHANGED <<ingredients, cocktails, recipes, sales, last_call>>

\* check_cocktail_availability reads the cocktail again
ScCheckGet(p) ==
    /\ pc[p] = "sc_check_get"
    /\ LET cocktail == get_cocktail_by_id(frame[p].id)
       IN  IF cocktail = << >> THEN Return(p, FALSE, "cocktail_not_found")
           ELSE IF cocktail[1].recipe = << >>
                THEN Goto(p, IF frame[p].recipe = << >> THEN "sc_insert" ELSE "sc_deplete",
                          [frame[p] EXCEPT !.k = 1])
                ELSE Goto(p, "sc_check_line", [frame[p] EXCEPT !.checked = cocktail[1].recipe, !.k = 1])
    /\ UNCHANGED <<ingredients, cocktails, recipes, sales, last_call>>

\* one pass of the loop of check_cocktail_availability
ScCheckLine(p) ==
    /\ pc[p] = "sc_check_line"
    /\ LET k == frame[p].k
           m == CheckLine(frame[p].checked[k])
       IN  IF m # "" THEN Return(p, FALSE, m)
           ELSE IF k < Len(frame[p].checked) THEN Goto(p, "sc_check_line", [frame[p] EXCEPT !.k = k + 1])
           ELSE Goto(p, IF frame[p].recipe = << >> THEN "sc_insert" ELSE "sc_deplete",
                     [frame[p] EXCEPT !.k = 1])
    /\ UNCHANGED <<ingredients, cocktails, recipes, sales, last_call>>

\* one pass of the depletion loop: get_ingredient_by_id, units_needed,
\* update_ingredient_quantity(ing_id, -units_needed)
ScDeplete(p) ==
    /\ pc[p] = "sc_deplete"
    /\ LET k == frame[p].k
       IN  /\ ingredients' = DepleteLine(ingredients, frame[p].recipe[k])
           /\ IF k < Len(frame[p].recipe)
              THEN Goto(p, "sc_deplete", [frame[p] EXCEPT !.k = k + 1])
              ELSE Goto(p, "sc_insert", frame[p])
    /\ UNCHANGED <<cocktails, recipes, sales, last_call>>

\* INSERT INTO sales ... ; commit ; return True
ScInsert(p, date) ==
    /\ pc[p] = "sc_insert"
    /\ sales' = InsertSale(sales, "cocktail", frame[p].id, 1, frame[p].price, date)
    /\ Return(p, TRUE, "")
    /\ UNCHANGED <<ingredients, cocktails, recipes, last_call>>

ConcNext ==
    \E p \in Procs :
        \/ \E i \in IngIds, q \in 1 .. QtyCap : CallSellIngredient(p, i, q)
        \/ SiRead(p)
        \/ SiUpdate(p)
        \/ \E t \in LastDate .. MaxClock : SiInsert(p, t)
        \/ \E c \in CocktailIds : CallSellCocktail(p, c)
        \/ ScGet(p)
        \/ ScCheckGet(p)
        \/ ScCheckLine(p)
        \/ ScDeplete(p)
        \/ \E t \in LastDate .. MaxClock : ScInsert(p, t)

SpecConc == ConcInit /\ [][ConcNext]_vars

(***************************************************************************)
(* SpecAdjust: two connections on the database of SpecConc, each calling   *)
(* update_ingredient_quantity.  The call is one UPDATE statement with its  *)
(* commit; frame[p].applied keeps, for each ingredient, the sum of the     *)
(* deltas the calls of connection p have applied so far.                   *)
(***************************************************************************)
\* update_ingredient_quantity(ing_id, delta) is entered
CallUpdateIngredientQuantity(p, ing_id, delta) ==
    /\ CanCall(p)
    /\ Goto(p, "uq_update", [NoFrame EXCEPT !.op = "update_ingredient_quantity", !.id = ing_id,
                                            !.quantity = delta, !.ncalls = frame[p].ncalls + 1,
                                            !.applied = frame[p].applied])
    /\ UNCHANGED <<ingredients, cocktails, recipes, sales, last_call>>

\* the delta a call has applied is added to the sums of its connection
Applied(p, ret) ==
    IF ret THEN [frame[p] EXCEPT !.applied[frame[p].id] = @ + frame[p].quantity, !.ret = TRUE]
    ELSE [frame[p] EXCEPT !.ret = FALSE]

\* the quantity written is computed from the quantity the database held when
\* the connections were opened (a read-modify-write on a stale read)
UqUpdate_from_snapshot(p) ==
    /\ pc[p] = "uq_update"
    /\ LET r == update_ingredient_quantity(ingredients, frame[p].id, frame[p].quantity)
       IN  /\ ingredients' =
                 IF r.ret
                 THEN [ingredients EXCEPT ![frame[p].id].quantity =
                          ConcIngredients[frame[p].id].quantity + frame[p].quantity]
                 ELSE ingredients
           /\ Goto(p, "done", Applied(p, r.ret))
    /\ UNCHANGED <<cocktails, recipes, sales, last_call>>

\* UPDATE ingredients SET quantity = quantity + ? WHERE id=? ; commit ;
\* return rowcount > 0
UqUpdate(p) ==
    /\ pc[p] = "uq_update"
    /\ LET r == update_ingredient_quantity(ingredients, frame[p].id, frame[p].quantity)
       IN  /\ ingredients' = r.ingredients
           /\ Goto(p, "done", Applied(p, r.ret))
    /\ UNCHANGED <<cocktails, recipes, sales, last_call>>

AdjustNext ==
    \E p \in Procs :
        \/ \E i \in IngIds, d \in Args : CallUpdateIngredientQuantity(p, i, d)
        \/ UqUpdate(p)

SpecAdjust == ConcInit /\ [][AdjustNext]_vars

(***************************************************************************)
(* SpecView: the two reads of the cocktail catalogue.  The database holds  *)
(* gin (40 %) and syrup (0 %) and one cocktail; its recipe is one of the    *)
(* recipes above or syrup and gin in volumes of 10, 20, ... ml.  The       *)
(* strength a read returns is counted in tenths of a percent.              *)
(***************************************************************************)
ViewVols == {10 * k * VolScale : k \in 1 .. MaxViewVol}

ViewInputs ==
    CocktailInputs \cup
        {[name |-> "view", price |-> 5, recipe |-> << <<2, b>>, <<1, a>> >>] : a, b \in ViewVols}

ViewInit ==
    /\ ingredients = ConcIngredients
    /\ \E inp \in ViewInputs :
          /\ cocktails = << CocktailRow(1, inp) >>
          /\ recipes = RecipeLines(1, inp)
    /\ sales = << >>
    /\ last_call = Call("", 0, 0, FALSE, "")
    /\ pc = [p \in Procs |-> "idle"]
    /\ frame = [p \in Procs |-> NoFrame]

\* get_cocktail_by_id: arg is the alcohol_percent of the dict returned
GetCocktailById(cocktail_id) ==
    LET cocktail == get_cocktail_by_id(cocktail_id)
    IN  /\ last_call' = Call("get_cocktail_by_id", cocktail_id,
                             IF cocktail = << >> THEN 0 ELSE cocktail[1].alcohol_percent,
                             cocktail # << >>, "")
        /\ UNCHANGED <<ingredients, cocktails, recipes, sales, pc, frame>>

\* get_all_cocktails: arg is the number of dicts returned
GetAllCocktails ==
    /\ last_call' = Call("get_all_cocktails", 0, Len(get_all_cocktails), TRUE, "")
    /\ UNCHANGED <<ingredients, cocktails, recipes, sales, pc, frame>>

ViewNext ==
    \/ \E c \in CocktailIds : GetCocktailById(c)
    \/ GetAllCocktails

SpecView == ViewInit /\ [][ViewNext]_vars

(***************************************************************************)
(* Properties.  In Spec a step is one whole call and last_call' is that    *)
(* call, so a property of "a call that ..." reads last_call' and compares  *)
(* the tables before and after the step.                                   *)
(***************************************************************************)
Sold(op) == last_call.op = op /\ last_call.ret

\* the ceiling of need_vol / volume_ml
CeilDiv(need_vol, volume_ml) == (need_vol + volume_ml - 1) \div volume_ml

\* a stored recipe line is covered by the stock
LineCovered(row) ==
    /\ row.ingredient_id \in DOMAIN ingredients
    /\ ingredients[row.ingredient_id].quantity > 0
    /\ ingredients[row.ingredient_id].quantity * ingredients[row.ingredient_id].volume_ml >= row.volume_ml

\* C1: starting from non-negative stock, after any sequence of
\* update_ingredient_quantity, sell_ingredient, sell_cocktail and
\* restock_ingredient calls with arbitrary integer arguments every stored
\* quantity is >= 0.
C1_QuantityNeverNegative ==
    \A i \in DOMAIN ingredients : ingredients[i].quantity >= 0

\* C2: a call of sell_cocktail or sell_ingredient that fails (returns False)
\* leaves every ingredient row and the sales table as they were before it.
C2_FailedSaleChangesNothing ==
    [][ (last_call'.op \in {"sell_cocktail", "sell_ingredient"} /\ ~last_call'.ret)
            => (ingredients' = ingredients /\ sales' = sales) ]_vars

\* C2 witness: sell_cocktail has just failed on a recipe of several lines
\* whose only failing line is not the first one.
C2_Witness ==
    /\ last_call.op = "sell_cocktail" /\ ~last_call.ret /\ last_call.msg = "insufficient"
    /\ last_call.id \in DOMAIN cocktails
    /\ LET rows == RecipeRows(last_call.id)
       IN  /\ Len(rows) >= 2
           /\ Cardinality({k \in DOMAIN rows : CheckLine(rows[k]) # ""}) = 1
           /\ CheckLine(rows[1]) = ""

\* C7: for an existing cocktail, check_cocktail_availability answers
\* Available exactly when every line of the recipe as stored by add_cocktail
\* is covered: its ingredient has quantity > 0 and
\* quantity * volume_ml >= the line's volume.
C7_AvailableIffEveryLineCovered ==
    (last_call.op = "check_cocktail_availability" /\ last_call.id \in DOMAIN cocktails)
        => (last_call.ret <=>
              \A k \in DOMAIN recipes :
                  recipes[k].cocktail_id = last_call.id => LineCovered(recipes[k]))

\* C8: a successful sell_ingredient(id, q) lowers the quantity of id by
\* exactly q and appends exactly one sale: kind ingredient, item id,
\* quantity q, total_price = q * price_per_unit.
C8_SellIngredientEffect ==
    [][ (last_call'.op = "sell_ingredient" /\ last_call'.ret)
            => LET id == last_call'.id
                   q == last_call'.arg
               IN  /\ id \in DOMAIN ingredients
                   /\ ingredients'[id].quantity = ingredients[id].quantity - q
                   /\ Len(sales') = Len(sales) + 1
                   /\ SubSeq(sales', 1, Len(sales)) = sales
                   /\ LET s == sales'[Len(sales')]
                      IN  /\ s.item_type = "ingredient"
                          /\ s.item_id = id
                          /\ s.quantity = q
                          /\ s.total_price = q * ingredients[id].price_per_unit ]_vars

\* C8 witness: sell_ingredient has just sold several units at a unit price
\* above 1 and the last sale charges quantity * price.
C8_Witness ==
    /\ Sold("sell_ingredient") /\ last_call.arg > 1
    /\ sales # << >>
    /\ ingredients[last_call.id].price_per_unit > 1
    /\ sales[Len(sales)].total_price = last_call.arg * ingredients[last_call.id].price_per_unit

\* C9: a successful sell_cocktail lowers the quantity of every ingredient of
\* the recipe by exactly ceil(line volume / unit volume).
C9_DepletesCeilUnits ==
    [][ (last_call'.op = "sell_cocktail" /\ last_call'.ret)
            => LET rows == RecipeRows(last_call'.id)
               IN  \A k \in DOMAIN rows :
                       ingredients'[rows[k].id].quantity =
                           ingredients[rows[k].id].quantity
                             - CeilDiv(rows[k].volume_ml, ingredients[rows[k].id].volume_ml) ]_vars

\* C10: a successful sell_cocktail appends exactly one sale: kind cocktail,
\* the cocktail's id, quantity 1, total_price the cocktail's price; a failed
\* one appends none.
C10_SellCocktailSale ==
    [][ last_call'.op = "sell_cocktail"
            => IF last_call'.ret
               THEN LET id == last_call'.id
                    IN  /\ id \in DOMAIN cocktails
                        /\ Len(sales') = Len(sales) + 1
                        /\ SubSeq(sales', 1, Len(sales)) = sales
                        /\ LET s == sales'[Len(sales')]
                           IN  /\ s.item_type = "cocktail"
                               /\ s.item_id = id
                               /\ s.quantity = 1
                               /\ s.total_price = cocktails[id].price
               ELSE sales' = sales ]_vars

\* C10 witness: sell_cocktail has just succeeded on a recipe of several
\* lines, with an earlier sale already in the table.
C10_Witness ==
    /\ Sold("sell_cocktail")
    /\ Len(RecipeRows(last_call.id)) >= 2
    /\ Len(sales) >= 2
    /\ sales[Len(sales)].item_type = "cocktail"

\* C11: update_ingredient_quantity(id, delta) on a stored ingredient whose
\* quantity + delta is below zero is rejected: it does not report success
\* and the ingredient rows stay as they were.
C11_AdjustBelowZeroRejected ==
    [][ ( /\ last_call'.op = "update_ingredient_quantity"
          /\ last_call'.id \in DOMAIN ingredients
          /\ ingredients[last_call'.id].quantity + last_call'.arg < 0 )
            => (~last_call'.ret /\ ingredients' = ingredients) ]_vars

\* C12: sell_ingredient(id, q) on a stored ingredient fails, for lack of
\* stock, exactly when q is above the quantity on hand; selling exactly the
\* quantity on hand succeeds and leaves quantity 0; on an id that is not
\* stored it fails with ingredient-not-found.
C12_SellIngredientFailsIffShort ==
    [][ last_call'.op = "sell_ingredient"
            => LET id == last_call'.id
                   q == last_call'.arg
               IN  IF id \notin DOMAIN ingredients
                   THEN ~last_call'.ret /\ last_call'.msg = "ingredient_not_found"
                   ELSE /\ ~last_call'.ret <=> q > ingredients[id].quantity
                        /\ ~last_call'.ret => last_call'.msg = "insufficient"
                        /\ q = ingredients[id].quantity
                              => (last_call'.ret /\ ingredients'[id].quantity = 0) ]_vars

\* C12 witness: sell_ingredient has just sold all of a positive stock: the
\* quantity is 0 and the sale records the amount asked for.
C12_Witness ==
    /\ Sold("sell_ingredient") /\ last_call.arg > 0
    /\ ingredients[last_call.id].quantity = 0
    /\ sales # << >>
    /\ sales[Len(sales)].item_id = last_call.id
    /\ sales[Len(sales)].quantity = last_call.arg

\* C13: sell_ingredient with a zero or negative quantity is rejected: it
\* does not report success, no ingredient's quantity changes and no sale is
\* recorded.
C13_NonPositiveSaleRejected ==
    [][ (last_call'.op = "sell_ingredient" /\ last_call'.arg <= 0)
            => (~last_call'.ret /\ ingredients' = ingredients /\ sales' = sales) ]_vars

\* C14: restock_ingredient(id, q) with q <= 0 is rejected and leaves the
\* quantities as they were; no restock_ingredient call lowers a quantity.
C14_NonPositiveRestockRejected ==
    [][ last_call'.op = "restock_ingredient"
            => /\ last_call'.arg <= 0 => (~last_call'.ret /\ ingredients' = ingredients)
               /\ \A i \in DOMAIN ingredients :
                     ingredients'[i].quantity >= ingredients[i].quantity ]_vars

\* C15: restock_ingredient(id, q) with q > 0 on a stored ingredient succeeds,
\* raises the quantity of id by exactly q and leaves every other field and
\* row of ingredients, the sales, the cocktails and the recipes unchanged; on
\* an id that is not stored it fails with ingredient-not-found and changes
\* nothing.
C15_RestockEffect ==
    [][ last_call'.op = "restock_ingredient"
            => LET id == last_call'.id
                   q == last_call'.arg
               IN  /\ sales' = sales /\ cocktails' = cocktails /\ recipes' = recipes
                   /\ IF id \notin DOMAIN ingredients
                      THEN /\ ~last_call'.ret
                           /\ last_call'.msg = "ingredient_not_found"
                           /\ ingredients' = ingredients
                      ELSE q > 0
                             => /\ last_call'.ret
                                /\ ingredients' = [ingredients EXCEPT ![id].quantity = @ + q] ]_vars

\* C15 witness: restock_ingredient has just added several units to a stock
\* that was not empty, with another ingredient, a cocktail and a sale stored.
C15_Witness ==
    /\ Sold("restock_ingredient") /\ last_call.arg > 1
    /\ ingredients[last_call.id].quantity > last_call.arg
    /\ Len(ingredients) >= 2
    /\ cocktails # << >> /\ recipes # << >> /\ sales # << >>

\* C16: add_ingredient with the name of a stored ingredient fails (ValueError)
\* and leaves the ingredients table as it was, so an add_ingredient that
\* succeeds appends one row whose name no stored row had; no two stored
\* ingredients ever have the same name.
C16_DuplicateNameRejected ==
    /\ [][ last_call'.op = "add_ingredient"
              => IF last_call'.ret
                 THEN /\ Len(ingredients') = Len(ingredients) + 1
                      /\ SubSeq(ingredients', 1, Len(ingredients)) = ingredients
                      /\ \A i \in DOMAIN ingredients :
                            ingredients[i].name # ingredients'[Len(ingredients')].name
                 ELSE /\ last_call'.msg = "ValueError"
                      /\ ingredients # << >>
                      /\ ingredients' = ingredients ]_vars
    /\ [](\A i, j \in DOMAIN ingredients :
              i # j => ingredients[i].name # ingredients[j].name)

\* C16 witness: add_ingredient has just failed on a name in use, with two
\* ingredients stored.
C16_Witness ==
    /\ last_call.op = "add_ingredient" /\ ~last_call.ret /\ last_call.msg = "ValueError"
    /\ Len(ingredients) = 2

\* C17: add_cocktail stores nothing when a line of the recipe names an
\* ingredient that is not stored, so every stored recipe line names a stored
\* ingredient.
C17_RecipeLinesNameStoredIngredients ==
    \A k \in DOMAIN recipes : recipes[k].ingredient_id \in DOMAIN ingredients

\* the stored recipe lines of a cocktail
StoredLines(cocktail_id) ==
    {k \in DOMAIN recipes : recipes[k].cocktail_id = cocktail_id}

\* C18: add_cocktail stores nothing when the recipe is empty, so every
\* stored cocktail has at least one recipe line, and no cocktail without
\* lines is reported available or sold.
C18_NoEmptyRecipe ==
    /\ \A c \in DOMAIN cocktails : StoredLines(c) # {}
    /\ ( /\ last_call.op \in {"check_cocktail_availability", "sell_cocktail"}
         /\ last_call.ret )
          => StoredLines(last_call.id) # {}

\* C19: the sales table is append-only: over every call (add_ingredient,
\* add_cocktail, update_ingredient_quantity, restock_ingredient, the two
\* sales, the availability check and the report) the sales table before the
\* call is an unchanged prefix of the sales table after it.
C19_SalesAppendOnly ==
    [][ /\ Len(sales') >= Len(sales)
        /\ SubSeq(sales', 1, Len(sales)) = sales ]_vars

\* C19 witness: a sale has just been appended to a table that held a sale of
\* the other kind.
C19_Witness ==
    /\ last_call.op \in {"sell_cocktail", "sell_ingredient"} /\ last_call.ret
    /\ Len(sales) >= 2
    /\ sales[Len(sales)].item_type # sales[Len(sales) - 1].item_type

\* C20: get_sales_report returns the sales newest first: of any two rows
\* returned, the one inserted later (the higher id) comes earlier, sales of
\* one and the same second included.
C20_ReportNewestFirst ==
    last_call.op = "get_sales_report"
        => LET report == get_sales_report
           IN  \A i, j \in DOMAIN report : i < j => report[i].id > report[j].id

\* C22: with one caller, sell_cocktail on a stored cocktail succeeds exactly
\* when check_cocktail_availability answers available in the state the call
\* starts from; when it fails it shows the message of the check and no
\* ingredient row has been changed.
C22_SellCocktailIffAvailable ==
    [][ (last_call'.op = "sell_cocktail" /\ last_call'.id \in DOMAIN cocktails)
            => LET available == check_cocktail_availability(last_call'.id)
               IN  /\ last_call'.ret <=> available.ok
                   /\ ~last_call'.ret
                         => (last_call'.msg = available.msg /\ ingredients' = ingredients) ]_vars

\* C22 witness: sell_cocktail has just been refused on a stored cocktail of
\* several lines with the out-of-stock message of the check.
C22_Witness ==
    /\ last_call.op = "sell_cocktail" /\ ~last_call.ret /\ last_call.msg = "out_of_stock"
    /\ last_call.id \in DOMAIN cocktails
    /\ Len(RecipeRows(last_call.id)) >= 2
    /\ ~check_cocktail_availability(last_call.id).ok

\* C23: check_cocktail_availability writes nothing: for every cocktail id,
\* stored or not, the ingredients, cocktails, recipes and sales tables are
\* the same after the call as before it (so the calls that follow find the
\* tables they would have found without it).
C23_CheckChangesNothing ==
    [][ last_call'.op = "check_cocktail_availability"
            => /\ ingredients' = ingredients
               /\ cocktails' = cocktails
               /\ recipes' = recipes
               /\ sales' = sales ]_vars

\* C23 witness: check_cocktail_availability has just answered available for
\* a recipe of several lines, with a sale already recorded.
C23_Witness ==
    /\ last_call.op = "check_cocktail_availability" /\ last_call.ret
    /\ Len(RecipeRows(last_call.id)) >= 2
    /\ sales # << >>

\* C24: when check_cocktail_availability answers unavailable for a stored
\* cocktail whose lines all name stored ingredients, it names the first line
\* that is not covered, in the order the lines were given to add_cocktail
\* (the order of their rows in recipes), and its message is out-of-stock
\* when that ingredient has no units and insufficient otherwise.
C24_FirstFailingLineInGivenOrder ==
    ( /\ last_call.op = "check_cocktail_availability" /\ ~last_call.ret
      /\ last_call.id \in DOMAIN cocktails
      /\ \A k \in StoredLines(last_call.id) : recipes[k].ingredient_id \in DOMAIN ingredients )
        => LET failing == {k \in StoredLines(last_call.id) : ~LineCovered(recipes[k])}
               first == CHOOSE k \in failing : \A j \in failing : k <= j
           IN  /\ failing # {}
               /\ last_call.arg = recipes[first].ingredient_id
               /\ last_call.msg =
                     IF ingredients[recipes[first].ingredient_id].quantity <= 0
                     THEN "out_of_stock" ELSE "insufficient"

\* C26: a successful sell_ingredient(id, q) leaves every ingredient row
\* other than id as it was, a successful sell_cocktail leaves every
\* ingredient row not named by a line of the recipe as it was, and neither
\* changes the cocktails, the recipes or any field of an ingredient other
\* than quantity.
C26_SalesChangeOnlyWhatTheyName ==
    [][ (last_call'.op \in {"sell_ingredient", "sell_cocktail"} /\ last_call'.ret)
            => LET named == IF last_call'.op = "sell_ingredient"
                            THEN {last_call'.id}
                            ELSE {recipes[k].ingredient_id : k \in StoredLines(last_call'.id)}
               IN  /\ cocktails' = cocktails
                   /\ recipes' = recipes
                   /\ DOMAIN ingredients' = DOMAIN ingredients
                   /\ \A i \in DOMAIN ingredients :
                         /\ i \notin named => ingredients'[i] = ingredients[i]
                         /\ [ingredients'[i] EXCEPT !.quantity = 0]
                              = [ingredients[i] EXCEPT !.quantity = 0] ]_vars

\* C26 witness: a sale has just succeeded that names one of two stored
\* ingredients (sell_ingredient, or sell_cocktail of a recipe of one line).
C26_Witness ==
    /\ last_call.op \in {"sell_ingredient", "sell_cocktail"} /\ last_call.ret
    /\ Len(ingredients) = 2
    /\ last_call.op = "sell_cocktail" => Cardinality(StoredLines(last_call.id)) = 1
    /\ \E i \in DOMAIN ingredients : ingredients[i].quantity > 0

(***************************************************************************)
(* Properties of SpecView.                                                 *)
(***************************************************************************)
\* the sum of the volumes of the stored recipe lines of cocktail c
RECURSIVE StoredVolume(_, _)
StoredVolume(c, n) ==
    IF n = 0 THEN 0
    ELSE (IF recipes[n].cocktail_id = c THEN recipes[n].volume_ml ELSE 0) + StoredVolume(c, n - 1)

\* the sum of volume * strength of the stored recipe lines of cocktail c
RECURSIVE StoredAlcohol(_, _)
StoredAlcohol(c, n) ==
    IF n = 0 THEN 0
    ELSE (IF recipes[n].cocktail_id = c
          THEN recipes[n].volume_ml * ingredients[recipes[n].ingredient_id].alcohol_percent
          ELSE 0) + StoredAlcohol(c, n - 1)

Abs(x) == IF x < 0 THEN 0 - x ELSE x

\* the views the last read returned
ViewsRead ==
    IF last_call.op = "get_cocktail_by_id" /\ last_call.ret
    THEN {get_cocktail_by_id(last_call.id)[1]}
    ELSE IF last_call.op = "get_all_cocktails"
         THEN {get_all_cocktails[n] : n \in DOMAIN get_all_cocktails}
         ELSE {}

\* the recipe of 100 ml of gin (40 %) and 50 ml of syrup (0 %)
IsExample(c) ==
    {<<recipes[k].ingredient_id, recipes[k].volume_ml>> : k \in StoredLines(c)}
        = {<<1, 100 * VolScale>>, <<2, 50 * VolScale>>}

\* C21 (as the program behaves): a view returned by get_cocktail_by_id or
\* get_all_cocktails reports as volume the sum of the volumes of the recipe
\* lines and as strength sum(volume * strength) / sum(volume) rounded to one
\* decimal place, 0 when the volume is 0; for 100 ml at 40 % and 50 ml at 0 %
\* that is 26.7 % and 150 ml.
C21_ViewStrengthOneDecimal ==
    \A v \in ViewsRead :
        LET vol == StoredVolume(v.id, Len(recipes))
            alc == StoredAlcohol(v.id, Len(recipes))
        IN  /\ v.volume = vol
            /\ IF vol = 0 THEN v.alcohol_percent = 0
               ELSE 2 * Abs(10 * alc - v.alcohol_percent * vol) <= vol
            /\ IsExample(v.id) => (v.alcohol_percent = 267 /\ v.volume = 150 * VolScale)

\* C21 witness: get_cocktail_by_id has just returned the view of the recipe
\* of 100 ml of gin and 50 ml of syrup, with strength 26.7.
C21_Witness ==
    /\ last_call.op = "get_cocktail_by_id" /\ last_call.ret
    /\ IsExample(last_call.id)
    /\ last_call.arg = 267

\* C21 (as stated): the strength reported is sum(volume * strength) /
\* sum(volume) to two decimal places, 26.67 for the recipe of 100 ml at 40 %
\* and 50 ml at 0 % (10 * v.alcohol_percent is the reported strength in
\* hundredths of a percent).
C21_ViewStrengthTwoDecimals ==
    \A v \in ViewsRead :
        LET vol == StoredVolume(v.id, Len(recipes))
            alc == StoredAlcohol(v.id, Len(recipes))
        IN  /\ v.volume = vol
            /\ IF vol = 0 THEN v.alcohol_percent = 0
               ELSE 2 * Abs(100 * alc - 10 * v.alcohol_percent * vol) <= vol
            /\ IsExample(v.id) => (10 * v.alcohol_percent = 2667 /\ v.volume = 150 * VolScale)

(***************************************************************************)
(* Properties of SpecConc.                                                 *)
(***************************************************************************)
\* the units of ingredient i that one sale record accounts for
SaleUnits(s, i) ==
    IF s.item_type = "ingredient"
    THEN (IF s.item_id = i THEN s.quantity ELSE 0)
    ELSE LET rows == RecipeRows(s.item_id)
             on == {k \in DOMAIN rows : rows[k].id = i}
         IN  IF on = {} THEN 0
             ELSE units_needed(rows[CHOOSE k \in on : TRUE].volume_ml, ingredients[i].volume_ml)

RECURSIVE LedgerUnits(_, _)
LedgerUnits(i, n) ==
    IF n = 0 THEN 0 ELSE SaleUnits(sales[n], i) + LedgerUnits(i, n - 1)

\* p takes a step
Steps(p) == pc'[p] # pc[p] \/ frame'[p] # frame[p]

\* C3: two sell_ingredient calls on one ingredient, each asking for all of
\* the stock on hand, interleaved in any order: exactly one succeeds, the
\* other fails for lack of stock, the quantity ends at 0 and one sale is
\* recorded.
C3_ExactlyOneFullSaleSucceeds ==
    \A p, q \in Procs :
        ( /\ p # q
          /\ pc[p] = "done" /\ pc[q] = "done"
          /\ frame[p].ncalls = 1 /\ frame[q].ncalls = 1
          /\ frame[p].op = "sell_ingredient" /\ frame[q].op = "sell_ingredient"
          /\ frame[p].id = frame[q].id
          /\ frame[p].id \in DOMAIN ConcIngredients
          /\ frame[p].quantity = ConcIngredients[frame[p].id].quantity
          /\ frame[q].quantity = ConcIngredients[frame[p].id].quantity )
        => ( /\ frame[p].ret # frame[q].ret
             /\ (~frame[p].ret => frame[p].msg = "insufficient")
             /\ ingredients[frame[p].id].quantity = 0
             /\ Len(sales) = 1 )

\* C4: under any interleaving of sell_cocktail and sell_ingredient calls
\* (each asking for a positive amount) no ingredient is oversold: no
\* quantity is below zero.
C4_NoOversell ==
    \A i \in DOMAIN ingredients : ~(ingredients[i].quantity < 0)

\* C5: when sell_cocktail comes to deplete a later line of the recipe whose
\* stock no longer covers the units it takes, the call fails for lack of
\* stock and the depletions of the earlier lines are taken back.
C5_LateShortageFailsWhole ==
    [][ \A p \in Procs :
          ( /\ pc[p] = "sc_deplete"
            /\ frame[p].k > 1
            /\ Steps(p)
            /\ LET line == frame[p].recipe[frame[p].k]
               IN  ingredients[line.id].quantity
                     < units_needed(line.volume_ml, ingredients[line.id].volume_ml) )
          => ( /\ pc'[p] = "done"
               /\ ~frame'[p].ret
               /\ \A j \in 1 .. (frame[p].k - 1) :
                     LET done == frame[p].recipe[j]
                     IN  ingredients'[done.id].quantity =
                           ingredients[done.id].quantity
                             + units_needed(done.volume_ml, ingredients[done.id].volume_ml) ) ]_vars

\* C6: a sale is one unit: in every committed state each ingredient's
\* quantity is its initial quantity less the units the sales table accounts
\* for (no depletion without its sale record, no recipe depleted in part).
C6_NoDepletionWithoutSale ==
    \A i \in DOMAIN ingredients :
        ingredients[i].quantity = ConcIngredients[i].quantity - LedgerUnits(i, Len(sales))

(***************************************************************************)
(* Properties of SpecAdjust.                                               *)
(***************************************************************************)
\* C27: no update is lost: under every interleaving of the
\* update_ingredient_quantity calls of the two connections, each
\* ingredient's quantity is its initial quantity plus the sum of the deltas
\* the calls have applied to it.
C27_NoLostUpdate ==
    \A i \in DOMAIN ingredients :
        ingredients[i].quantity
            = ConcIngredients[i].quantity + frame[1].applied[i] + frame[2].applied[i]

\* C27 witness: both connections have applied a delta to the same
\* ingredient, each having entered its call before the other's UPDATE ran
\* or after it.
C27_Witness ==
    /\ pc[1] = "done" /\ pc[2] = "done"
    /\ frame[1].ret /\ frame[2].ret
    /\ frame[1].id = frame[2].id
    /\ frame[1].applied[frame[1].id] # 0
    /\ frame[2].applied[frame[1].id] # 0
    /\ frame[1].applied[frame[1].id] + frame[2].applied[frame[1].id] # 0

(***************************************************************************)
(* Stock conservation in Spec.                                             *)
(***************************************************************************)
\* the amount the call just made adds to ingredient i from outside the sales:
\* a restock, or an adjustment made directly
Adjusted(i) ==
    IF /\ last_call'.op \in {"restock_ingredient", "update_ingredient_quantity"}
       /\ last_call'.ret
       /\ last_call'.id = i
    THEN last_call'.arg ELSE 0

\* C25: each ingredient's quantity is its initial quantity, plus the amounts
\* restocked (or adjusted directly), less the quantities of its ingredient
\* sales, less the units taken for its line by every cocktail sale of a
\* recipe containing it.  Step by step: an ingredient enters with no sale
\* counting against it, and every call changes quantity + units accounted
\* for by exactly the amount it restocks.
C25_StockConservation ==
    [][ \A i \in DOMAIN ingredients' :
          IF i \in DOMAIN ingredients
          THEN ingredients'[i].quantity + LedgerUnits(i, Len(sales))'
                 = ingredients[i].quantity + LedgerUnits(i, Len(sales)) + Adjusted(i)
          ELSE LedgerUnits(i, Len(sales))' = 0 ]_vars

====
